---- MODULE Spec2Model ----
(***************************************************************************)
(* paderbox.io.atomic: open_atomic, write_text_atomic, write_bytes_atomic.  *)
(*                                                                         *)
(* The model is a small file system (a destination name, one staging name  *)
(* per write session, inodes holding the stored content) together with the *)
(* control flow of the open_atomic context manager on both platform        *)
(* branches (os.name == 'nt' and otherwise), one step per file operation,  *)
(* and a concurrent reader of the destination.                             *)
(*                                                                         *)
(* Characters/bytes are the units "a", "LF" (line feed) and "CR" (carriage *)
(* return); all are ASCII, so the text encoding maps each unit to itself   *)
(* and only the newline translation of text mode changes the data.         *)
(***************************************************************************)
EXTENDS Integers, Sequences, FiniteSets, TLC

\* Most units one session's body writes (over all of its write calls).
MaxLen == 2

\* The write sessions (calls of open_atomic) and the inodes of the file system:
\* "f0" is the file the destination names initially.
Sessions == {"s1", "s2"}
Inodes == {"f0"} \cup Sessions
NoInode == "none"

Alphabet == {"a", "LF", "CR"}

\* Non-empty sequences over Alphabet of length at most n.
RECURSIVE SeqsUpTo(_)
SeqsUpTo(n) ==
    IF n = 0 THEN {<<>>}
    ELSE LET shorter == SeqsUpTo(n - 1)
         IN  shorter \cup {Append(x, c) : x \in shorter, c \in Alphabet}

Chunks == SeqsUpTo(MaxLen) \ {<<>>}

\* Contents the destination may hold before any session starts.
InitContents == {<<"a">>, <<"CR", "a">>}

Modes == {"w", "wb", "r", "rb"}

VARIABLES
    osname,   \* os.name: "nt" or "posix"
    dest,     \* inode the destination path names, or NoInode
    stg,      \* stg[s]: inode the staging name of session s names, or NoInode
    content,  \* content[i]: the units stored in inode i
    synced,   \* synced[i]: inode i was fsynced since its last change
    ses,      \* ses[s]: the local state of session s (generator frame + tmp_f)
    obs,      \* obs[s]: history of session s (what the caller did and saw)
    last,     \* the session whose os.replace succeeded last, or NoInode
    dest0,    \* the destination before any session: [exists, data]
    rd        \* the concurrent reader of the destination: [pc, ino, buf]

vars == <<osname, dest, stg, content, synced, ses, obs, last, dest0, rd>>

----------------------------------------------------------------------------
(* Text and binary conversion of the handle the body writes to.            *)

\* Text mode, newline=None, writing: every "\n" becomes os.linesep.
RECURSIVE EncodeText(_)
EncodeText(x) ==
    IF x = <<>> THEN <<>>
    ELSE LET h == Head(x)
         IN  (IF h = "LF" /\ osname = "nt" THEN <<"CR", "LF">> ELSE <<h>>)
                 \o EncodeText(Tail(x))

\* What a write of data x through a handle of mode m stores.
Encode(m, x) == IF m = "w" THEN EncodeText(x) ELSE x

\* Text mode, newline=None, reading (open(file, 'r')): "\r\n" and "\r" are
\* both returned as "\n".
RECURSIVE DecodeText(_)
DecodeText(c) ==
    IF c = <<>> THEN <<>>
    ELSE IF Head(c) = "CR"
         THEN IF Len(c) > 1 /\ c[2] = "LF"
              THEN <<"LF">> \o DecodeText(Tail(Tail(c)))
              ELSE <<"LF">> \o DecodeText(Tail(c))
         ELSE <<Head(c)>> \o DecodeText(Tail(c))

\* Reading back in the mode that matches the write mode.
Decode(m, c) == IF m = "w" THEN DecodeText(c) ELSE c

----------------------------------------------------------------------------
(* Small pieces of open_atomic.                                            *)

\* Mutant of ModeOk: the assertion on the mode is missing.
ModeAny(m) == m \in Modes

\* assert 'w' in mode
ModeOk(m) == m \in {"w", "wb"}

\* Mutant of StagingInode: a fixed staging name, shared by all sessions.
SharedStaging(s) == "s1"

\* tempfile.NamedTemporaryFile creates a file under a fresh, unique name.
StagingInode(s) == s

\* Whether the handle of session s is open.
HandleOpen(r) == r.pc \notin {"idle", "done"} /\ ~r.closed

\* An unnamed inode lives as long as somebody holds it open.
Collect(cont, d, st, se, reader) ==
    [i \in Inodes |->
        IF \/ i = d
           \/ \E s \in Sessions : st[s] = i
           \/ \E s \in Sessions : StagingInode(s) = i /\ HandleOpen(se[s])
           \/ reader.pc = "reading" /\ reader.ino = i
        THEN cont[i] ELSE <<>>]

IdleSession ==
    [pc |-> "idle", ctx |-> "none", force |-> FALSE, mode |-> "w",
     skip_close |-> FALSE, exc |-> "none", buf |-> <<>>, closed |-> FALSE,
     delete |-> FALSE, caller |-> "none"]

IdleObs ==
    [written |-> <<>>, raised |-> FALSE, nrepl |-> 0, ndisc |-> 0,
     misuse |-> FALSE, iofail |-> FALSE]

\* Mutant of CleanupEntry: cleanup() replaces without flush and fsync.
CleanupSkipsFlush == "replace"

\* The first step of cleanup(): tmp_f.flush().
CleanupEntry == "flush"

\* The generator returns or raises to the caller of the with-statement.
Return(r) == [r EXCEPT !.pc = "done"]

\* The rest of the finally block after "if force: cleanup()"; on the other
\* branch the with-statement of NamedTemporaryFile is left.
FinallyTail(r) ==
    IF osname = "nt"
    THEN IF ~r.skip_close
         THEN [r EXCEPT !.pc = "car_close", !.ctx = "finally"]
         ELSE Return(r)
    ELSE [r EXCEPT !.pc = "with_exit"]

\* finally: if force: cleanup()
EnterFinally(r) ==
    IF r.force
    THEN [r EXCEPT !.pc = CleanupEntry, !.ctx = "finally"]
    ELSE FinallyTail(r)

\* except: skip_close = True; close_and_remove(); raise
EnterExcept(r) ==
    [r EXCEPT !.skip_close = TRUE, !.pc = "car_close", !.ctx = "except"]

\* cleanup() returned.
CleanupReturns(r) ==
    IF r.ctx = "try" THEN EnterFinally(r) ELSE FinallyTail(r)

\* A step of cleanup() raised e.
CleanupRaises(r, e) ==
    LET q == [r EXCEPT !.exc = e]
    IN  IF r.ctx = "try"
        THEN IF osname = "nt" THEN EnterExcept(q) ELSE EnterFinally(q)
        ELSE IF osname = "nt" THEN Return(q)
             ELSE [q EXCEPT !.pc = "with_exit"]

\* close_and_remove() returned: "raise" in the except block, or the end of
\* the finally block.
CarReturns(r) ==
    IF r.ctx = "except" THEN EnterFinally(r) ELSE Return(r)

\* os.unlink in close_and_remove() raised e.
CarRaises(r, e) ==
    LET q == [r EXCEPT !.exc = e]
    IN  IF r.ctx = "except" THEN EnterFinally(q) ELSE Return(q)

----------------------------------------------------------------------------
Init ==
    /\ osname \in {"nt", "posix"}
    /\ \E e \in BOOLEAN, d \in InitContents :
          /\ dest0 = [exists |-> e, data |-> IF e THEN d ELSE <<>>]
          /\ dest = IF e THEN "f0" ELSE NoInode
          /\ content = [i \in Inodes |-> IF i = "f0" /\ e THEN d ELSE <<>>]
    /\ stg = [s \in Sessions |-> NoInode]
    /\ synced = [i \in Inodes |-> FALSE]
    /\ ses = [s \in Sessions |-> IdleSession]
    /\ obs = [s \in Sessions |-> IdleObs]
    /\ last = NoInode
    /\ rd = [pc |-> "idle", ino |-> NoInode, buf |-> <<>>]

----------------------------------------------------------------------------
(* Steps.  Every step of a session changes ses[s] (and possibly the file    *)
(* system); Update garbage-collects inodes nobody names or holds.           *)

Update(s, r, o, d, st, cont, syn, l) ==
    /\ ses' = [ses EXCEPT ![s] = r]
    /\ obs' = [obs EXCEPT ![s] = o]
    /\ dest' = d
    /\ stg' = st
    /\ content' = Collect(cont, d, st, [ses EXCEPT ![s] = r], rd)
    /\ synced' = syn
    /\ last' = l
    /\ UNCHANGED <<osname, dest0, rd>>

\* The buffered data of the handle reaches its file.
Stored(cont, s, r) == [cont EXCEPT ![StagingInode(s)] = @ \o r.buf]
Dirtied(syn, s, r) ==
    [syn EXCEPT ![StagingInode(s)] = IF r.buf = <<>> THEN @ ELSE FALSE]

\* Mutant of Begin: the staging file starts as a copy of the destination
\* instead of empty.
BeginAppending(s, m, f, who) ==
    /\ ses[s].pc = "idle"
    /\ LET r == [IdleSession EXCEPT !.mode = m, !.force = f, !.caller = who]
       IN  IF ~ModeOk(m)
           THEN Update(s, [r EXCEPT !.pc = "done", !.exc = "AssertionError"],
                       obs[s], dest, stg, content, synced, last)
           ELSE Update(s, [r EXCEPT !.pc = "body", !.delete = (osname # "nt")],
                       obs[s], dest,
                       [stg EXCEPT ![s] = StagingInode(s)],
                       [content EXCEPT ![StagingInode(s)] =
                           IF dest # NoInode THEN content[dest] ELSE <<>>],
                       [synced EXCEPT ![StagingInode(s)] = FALSE], last)

\* open_atomic up to its yield: the assertion on the mode, then the staging
\* file is created and handed to the body.
Begin(s, m, f, who) ==
    /\ ses[s].pc = "idle"
    /\ LET r == [IdleSession EXCEPT !.mode = m, !.force = f, !.caller = who]
       IN  IF ~ModeOk(m)
           THEN Update(s, [r EXCEPT !.pc = "done", !.exc = "AssertionError"],
                       obs[s], dest, stg, content, synced, last)
           ELSE Update(s, [r EXCEPT !.pc = "body", !.delete = (osname # "nt")],
                       obs[s], dest,
                       [stg EXCEPT ![s] = StagingInode(s)],
                       [content EXCEPT ![StagingInode(s)] = <<>>],
                       [synced EXCEPT ![StagingInode(s)] = FALSE], last)

\* with open_atomic(file, mode, force=force) as f: ...
OpenAtomic(s, m, f) == Begin(s, m, f, "with")

\* write_text_atomic(data, path): with open_atomic(path, 'w') as fd
WriteTextAtomic(s) == Begin(s, "w", FALSE, "write_text_atomic")

\* write_bytes_atomic(data, path): with open_atomic(path, 'wb') as fd
WriteBytesAtomic(s) == Begin(s, "wb", FALSE, "write_bytes_atomic")

\* f.write(c) in the body.  The data goes to the buffer of the handle; the
\* buffered writer may pass its buffer on to the file at any write (spill).
\* The wrappers write exactly once.
Write(s, c, spill) ==
    LET r == ses[s]
        q == [r EXCEPT !.buf = @ \o Encode(r.mode, c)]
    IN  /\ r.pc = "body"
        /\ Len(obs[s].written) + Len(c) <= MaxLen
        /\ r.caller # "with" => obs[s].written = <<>>
        /\ IF spill
           THEN Update(s, [q EXCEPT !.buf = <<>>],
                       [obs[s] EXCEPT !.written = @ \o c], dest, stg,
                       Stored(content, s, q), Dirtied(synced, s, q), last)
           ELSE Update(s, q, [obs[s] EXCEPT !.written = @ \o c], dest, stg,
                       content, synced, last)

\* The body ends without an error: the code after the yield runs.
\*   nt:    if not force: skip_close = True; cleanup()
\*   else:  if not force: cleanup()
BodyReturn(s) ==
    LET r == ses[s]
    IN  /\ r.pc = "body"
        /\ r.caller # "with" => obs[s].written # <<>>
        /\ Update(s,
                  IF ~r.force
                  THEN [r EXCEPT !.pc = CleanupEntry, !.ctx = "try",
                                 !.skip_close = (osname = "nt")]
                  ELSE EnterFinally(r),
                  obs[s], dest, stg, content, synced, last)

\* The body raises the error E: it is thrown into the generator at the yield.
BodyRaise(s) ==
    LET r == ses[s]
        q == [r EXCEPT !.exc = "E"]
    IN  /\ r.pc = "body"
        /\ r.caller = "with"
        /\ Update(s, IF osname = "nt" THEN EnterExcept(q) ELSE EnterFinally(q),
                  [obs[s] EXCEPT !.raised = TRUE], dest, stg, content, synced,
                  last)

\* cleanup(): tmp_f.flush()
Flush(s) ==
    LET r == ses[s]
    IN  /\ r.pc = "flush"
        /\ IF r.closed
           THEN Update(s, CleanupRaises(r, "ValueError"),
                       [obs[s] EXCEPT !.misuse = TRUE], dest, stg, content,
                       synced, last)
           ELSE Update(s, [r EXCEPT !.pc = "fsync", !.buf = <<>>], obs[s],
                       dest, stg, Stored(content, s, r), Dirtied(synced, s, r),
                       last)

\* Mutant of Fsync: cleanup() goes on without the durability sync.
FsyncSkipped(s) ==
    LET r == ses[s]
    IN  /\ r.pc = "fsync"
        /\ Update(s,
                  [r EXCEPT !.pc = IF osname = "nt" THEN "close"
                                   ELSE "replace"],
                  obs[s], dest, stg, content, synced, last)

\* cleanup(): os.fsync(tmp_f.fileno())
Fsync(s) ==
    LET r == ses[s]
    IN  /\ r.pc = "fsync"
        /\ IF r.closed
           THEN Update(s, CleanupRaises(r, "ValueError"),
                       [obs[s] EXCEPT !.misuse = TRUE], dest, stg, content,
                       synced, last)
           ELSE Update(s,
                       [r EXCEPT !.pc = IF osname = "nt" THEN "close"
                                        ELSE "replace"],
                       obs[s], dest, stg, content,
                       [synced EXCEPT ![StagingInode(s)] = TRUE], last)

\* cleanup() on nt: tmp_f.close()
Close(s) ==
    LET r == ses[s]
    IN  /\ r.pc = "close"
        /\ Update(s, [r EXCEPT !.pc = "replace", !.closed = TRUE, !.buf = <<>>],
                  [obs[s] EXCEPT !.misuse = @ \/ r.closed], dest, stg,
                  IF r.closed THEN content ELSE Stored(content, s, r),
                  IF r.closed THEN synced ELSE Dirtied(synced, s, r), last)

\* cleanup(): os.replace(fname, file); on the non-nt branch followed by
\* tmp_f.delete = False; tmp_f._closer.delete = False.  The replace may fail
\* with an I/O error (ioFail): missing permission, or on nt a destination
\* that another process holds open.
Replace(s, ioFail) ==
    LET r == ses[s]
    IN  /\ r.pc = "replace"
        /\ IF stg[s] = NoInode
           THEN Update(s, CleanupRaises(r, "FileNotFoundError"),
                       [obs[s] EXCEPT !.misuse = TRUE], dest, stg, content,
                       synced, last)
           ELSE IF ioFail
           THEN Update(s, CleanupRaises(r, "OSError"),
                       [obs[s] EXCEPT !.iofail = TRUE], dest, stg, content,
                       synced, last)
           ELSE Update(s, CleanupReturns([r EXCEPT !.delete = FALSE]),
                       [obs[s] EXCEPT !.nrepl = @ + 1], stg[s],
                       [stg EXCEPT ![s] = NoInode], content, synced, s)

\* close_and_remove(): tmp_f.close()
CarClose(s) ==
    LET r == ses[s]
    IN  /\ r.pc = "car_close"
        /\ Update(s, [r EXCEPT !.pc = "car_unlink", !.closed = TRUE,
                               !.buf = <<>>],
                  [obs[s] EXCEPT !.misuse = @ \/ r.closed], dest, stg,
                  IF r.closed THEN content ELSE Stored(content, s, r),
                  IF r.closed THEN synced ELSE Dirtied(synced, s, r), last)

\* Mutant of CarUnlink: close_and_remove() closes but does not unlink.
CarUnlinkKeeps(s) ==
    LET r == ses[s]
    IN  /\ r.pc = "car_unlink"
        /\ Update(s, CarReturns(r), obs[s], dest, stg, content, synced, last)

\* close_and_remove(): os.unlink(fname)
CarUnlink(s) ==
    LET r == ses[s]
    IN  /\ r.pc = "car_unlink"
        /\ IF stg[s] = NoInode
           THEN Update(s, CarRaises(r, "FileNotFoundError"),
                       [obs[s] EXCEPT !.misuse = TRUE], dest, stg, content,
                       synced, last)
           ELSE Update(s, CarReturns(r), [obs[s] EXCEPT !.ndisc = @ + 1],
                       dest, [stg EXCEPT ![s] = NoInode], content, synced, last)

\* Leaving "with tempfile.NamedTemporaryFile(...) as tmp_f" (non-nt branch):
\* the handle is closed and, unless delete was disabled, the staging name is
\* unlinked.
WithExit(s) ==
    LET r == ses[s]
        q == [r EXCEPT !.closed = TRUE, !.buf = <<>>]
    IN  /\ r.pc = "with_exit"
        /\ IF ~r.delete
           THEN Update(s, Return(q), obs[s], dest, stg, Stored(content, s, r),
                       Dirtied(synced, s, r), last)
           ELSE IF stg[s] = NoInode
           THEN Update(s, Return([q EXCEPT !.exc = "FileNotFoundError"]),
                       [obs[s] EXCEPT !.misuse = TRUE], dest, stg,
                       Stored(content, s, r), Dirtied(synced, s, r), last)
           ELSE Update(s, Return(q), [obs[s] EXCEPT !.ndisc = @ + 1], dest,
                       [stg EXCEPT ![s] = NoInode], Stored(content, s, r),
                       Dirtied(synced, s, r), last)

\* Another process opens the destination for reading: open(file, 'rb').
ReaderOpen ==
    /\ rd.pc = "idle"
    /\ dest # NoInode
    /\ rd' = [pc |-> "reading", ino |-> dest, buf |-> <<>>]
    /\ UNCHANGED <<osname, dest, stg, content, synced, ses, obs, last, dest0>>

\* The reader reads the next unit of the file it holds, or sees its end.
ReaderRead ==
    /\ rd.pc = "reading"
    /\ IF Len(rd.buf) < Len(content[rd.ino])
       THEN /\ rd' = [rd EXCEPT !.buf = Append(@, content[rd.ino][Len(@) + 1])]
            /\ content' = content
       ELSE /\ rd' = [rd EXCEPT !.pc = "done"]
            /\ content' = Collect(content, dest, stg, ses, rd')
    /\ UNCHANGED <<osname, dest, stg, synced, ses, obs, last, dest0>>

----------------------------------------------------------------------------
(* One write session next to a reader of the destination.                   *)

Solo == {"s1"}

Next ==
    \/ \E s \in Solo, m \in Modes, f \in BOOLEAN : OpenAtomic(s, m, f)
    \/ \E s \in Solo : WriteTextAtomic(s)
    \/ \E s \in Solo : WriteBytesAtomic(s)
    \/ \E s \in Sessions, c \in Chunks, spill \in BOOLEAN : Write(s, c, spill)
    \/ \E s \in Sessions : BodyReturn(s)
    \/ \E s \in Sessions : BodyRaise(s)
    \/ \E s \in Sessions : Flush(s)
    \/ \E s \in Sessions : Fsync(s)
    \/ \E s \in Sessions : Close(s)
    \/ \E s \in Sessions, ioFail \in BOOLEAN : Replace(s, ioFail)
    \/ \E s \in Sessions : CarClose(s)
    \/ \E s \in Sessions : CarUnlink(s)
    \/ \E s \in Sessions : WithExit(s)
    \/ ReaderOpen
    \/ ReaderRead

Spec == Init /\ [][Next]_vars

----------------------------------------------------------------------------
(* Two concurrent write sessions on the same destination, in text mode,     *)
(* every interleaving of their steps.                                       *)

PairChunks == {<<"a">>, <<"LF">>}

NextPair ==
    \/ \E s \in Sessions, f \in BOOLEAN : OpenAtomic(s, "w", f)
    \/ \E s \in Sessions, c \in PairChunks, spill \in BOOLEAN :
          Write(s, c, spill)
    \/ \E s \in Sessions : BodyReturn(s)
    \/ \E s \in Sessions : BodyRaise(s)
    \/ \E s \in Sessions : Flush(s)
    \/ \E s \in Sessions : Fsync(s)
    \/ \E s \in Sessions : Close(s)
    \/ \E s \in Sessions, ioFail \in BOOLEAN : Replace(s, ioFail)
    \/ \E s \in Sessions : CarClose(s)
    \/ \E s \in Sessions : CarUnlink(s)
    \/ \E s \in Sessions : WithExit(s)

SpecPair == Init /\ [][NextPair]_vars

----------------------------------------------------------------------------
(* Calls of the wrappers in succession: a wrapper is a synchronous call, so *)
(* the next call starts when the previous one has returned or raised.       *)

NoCallRunning == \A t \in Sessions : ses[t].pc \in {"idle", "done"}

NextTwice ==
    \/ \E s \in Sessions : NoCallRunning /\ WriteTextAtomic(s)
    \/ \E s \in Sessions : NoCallRunning /\ WriteBytesAtomic(s)
    \/ \E s \in Sessions, c \in Chunks, spill \in BOOLEAN : Write(s, c, spill)
    \/ \E s \in Sessions : BodyReturn(s)
    \/ \E s \in Sessions : Flush(s)
    \/ \E s \in Sessions : Fsync(s)
    \/ \E s \in Sessions : Close(s)
    \/ \E s \in Sessions, ioFail \in BOOLEAN : Replace(s, ioFail)
    \/ \E s \in Sessions : CarClose(s)
    \/ \E s \in Sessions : CarUnlink(s)
    \/ \E s \in Sessions : WithExit(s)

SpecTwice == Init /\ [][NextTwice]_vars

----------------------------------------------------------------------------
(* What the claims speak about.                                             *)

\* The destination as a caller sees it: whether it exists and what it holds.
DestState ==
    [exists |-> dest # NoInode,
     data   |-> IF dest # NoInode THEN content[dest] ELSE <<>>]

\* What the writes of session s store, in full.
Stored0(s) == Encode(ses[s].mode, obs[s].written)

\* The body of session s has ended (returned or raised).
BodyEnded(s) == ses[s].pc \notin {"idle", "body"}

\* open_atomic has returned or raised to its caller.
Done(s) == ses[s].pc = "done"

\* The session got past the assertion on the mode.
Started(s) == ses[s].pc # "idle" /\ ModeOk(ses[s].mode)

IsPrefix(a, b) == Len(a) <= Len(b) /\ SubSeq(b, 1, Len(a)) = a

\* The complete files a reader may see: the previous content, or everything
\* a session wrote once its body has ended.
Complete ==
    (IF dest0.exists THEN {dest0.data} ELSE {})
        \cup {Stored0(s) : s \in {t \in Sessions : BodyEnded(t)}}

\* No session other than s has replaced the destination.
OnlyWriter(s) == \A t \in Sessions \ {s} : obs[t].nrepl = 0

----------------------------------------------------------------------------
\* C1: a reader of the destination holds, at every moment of its read, a file
\* that is complete (the previous content B1, or all that a session wrote, B2)
\* and what it has read is a prefix of that file; what it has read at the end
\* of the file is B1 in full or B2 in full.  This includes the reader that
\* opened the destination before the replace and reads on after it.
C1_ReaderSeesOldOrNew ==
    /\ rd.pc = "reading" =>
          /\ content[rd.ino] \in Complete
          /\ IsPrefix(rd.buf, content[rd.ino])
    /\ rd.pc = "done" => rd.buf \in Complete

\* The reader opened the previous file, read a part of it, the session then
\* replaced the destination by different content, and the reader reads on.
C1_Witness ==
    /\ rd.pc = "reading" /\ rd.ino = "f0"
    /\ rd.buf # <<>> /\ Len(rd.buf) < Len(content["f0"])
    /\ dest = "s1" /\ content["s1"] # content["f0"]
    /\ Len(obs["s1"].written) = MaxLen

\* C2: a session with force=False whose body raised leaves the destination
\* as it was before the call (content or non-existence), never replaces it,
\* and leaves no staging file, on both branches.
C2_ErrorLeavesDestination ==
    \A s \in Sessions :
        (Done(s) /\ Started(s) /\ ~ses[s].force /\ obs[s].raised) =>
            /\ stg[s] = NoInode
            /\ obs[s].nrepl = 0
            /\ OnlyWriter(s) => DestState = dest0

\* The body wrote (and part of it reached the staging file) and then raised,
\* on the nt branch, over an existing destination.
C2_Witness ==
    /\ osname = "nt" /\ dest0.exists
    /\ Done("s1") /\ ~ses["s1"].force /\ obs["s1"].raised
    /\ Len(obs["s1"].written) = MaxLen /\ obs["s1"].ndisc = 1

\* C3 (as claimed): a session with force=True whose body raised E after
\* writing W ends with the destination holding exactly W and with E raised to
\* the caller, on both branches (no I/O failure of the replace).
C3_ForcedCommitOnError ==
    \A s \in Sessions :
        (Done(s) /\ Started(s) /\ ses[s].force /\ obs[s].raised
                 /\ ~obs[s].iofail) =>
            /\ DestState = [exists |-> TRUE, data |-> Stored0(s)]
            /\ ses[s].exc = "E"

\* C4 (as claimed): a session whose body completes without error returns
\* without raising, the destination then holds exactly what was written, and
\* no staging file remains, for both values of force and on both branches
\* (no I/O failure of the replace).
C4_SuccessCommits ==
    \A s \in Sessions :
        (Done(s) /\ Started(s) /\ ~obs[s].raised /\ ~obs[s].iofail) =>
            /\ ses[s].exc = "none"
            /\ OnlyWriter(s) =>
                  DestState = [exists |-> TRUE, data |-> Stored0(s)]
            /\ stg[s] = NoInode

\* C5 (as claimed): on every exit path exactly one of commit and discard takes
\* effect, no step is attempted on a closed handle or on a staging name that
\* was renamed or deleted, and no staging file is left (no I/O failure of the
\* replace).
C5_CleanupExactlyOnce ==
    \A s \in Sessions :
        /\ (Started(s) /\ ~obs[s].iofail) => ~obs[s].misuse
        /\ (Done(s) /\ Started(s) /\ ~obs[s].iofail) =>
              /\ obs[s].nrepl + obs[s].ndisc = 1
              /\ stg[s] = NoInode

\* C6 (as claimed): whenever the body raised E, the error the caller gets from
\* open_atomic is E, also when a step of the forced commit fails.
C6_ErrorNotMasked ==
    \A s \in Sessions :
        (Done(s) /\ obs[s].raised) => ses[s].exc = "E"

\* C7: a call with a mode without 'w' is rejected with an error at once: no
\* staging file exists at any time, the body never runs (nothing is written)
\* and the destination stays as it was.
C7_BadModeRejected ==
    \A s \in Sessions :
        (ses[s].pc # "idle" /\ ses[s].mode \in {"r", "rb"}) =>
            /\ Done(s) /\ ses[s].exc = "AssertionError"
            /\ stg[s] = NoInode /\ content[StagingInode(s)] = <<>>
            /\ obs[s].written = <<>> /\ ses[s].buf = <<>>
            /\ OnlyWriter(s) => DestState = dest0

\* A call with mode 'rb' was rejected while a destination exists.
C7_Witness ==
    /\ ses["s1"].mode = "rb" /\ Done("s1")
    /\ ses["s1"].exc = "AssertionError" /\ dest0.exists

\* C8: concurrent sessions on one destination have distinct staging files,
\* a staging file holds nothing but (a prefix of) what its own session wrote,
\* and under every interleaving the destination is the previous file until
\* the first replace and from then on exactly the complete content of the
\* session whose replace came last; so it is after all sessions have exited.
C8_LastReplaceWins ==
    /\ \A s \in Sessions : \A t \in Sessions \ {s} :
          (stg[s] # NoInode /\ stg[t] # NoInode) => stg[s] # stg[t]
    /\ \A s \in Sessions :
          stg[s] # NoInode =>
              /\ IsPrefix(content[stg[s]], Stored0(s))
              /\ HandleOpen(ses[s]) =>
                    content[stg[s]] \o ses[s].buf = Stored0(s)
    /\ last = NoInode => DestState = dest0
    /\ last # NoInode =>
          /\ BodyEnded(last)
          /\ DestState = [exists |-> TRUE, data |-> Stored0(last)]

\* Both bodies returned; s2 replaced the destination first and has not yet
\* left open_atomic, then s1 replaced it with different content and exited.
C8_Witness ==
    /\ obs["s2"].nrepl = 1 /\ ~Done("s2") /\ ~obs["s2"].raised
    /\ last = "s1" /\ Done("s1") /\ ~obs["s1"].raised
    /\ Stored0("s1") # Stored0("s2")
    /\ Len(obs["s1"].written) = MaxLen /\ Len(obs["s2"].written) = MaxLen
    /\ DestState.data = Stored0("s1")

\* C9 (as claimed): when the replace fails, the I/O error reaches the caller,
\* the destination is as it was before the session and the staging file is
\* removed, on both branches.
C9_FailedReplace ==
    \A s \in Sessions :
        (Done(s) /\ obs[s].iofail) =>
            /\ ses[s].exc = "OSError"
            /\ OnlyWriter(s) => DestState = dest0
            /\ stg[s] = NoInode


\* A call of write_text_atomic or write_bytes_atomic.
Wrapper(s) == ses[s].caller \in {"write_text_atomic", "write_bytes_atomic"}

\* Session s was such a call and has returned without an error.
Wrote(s) == Wrapper(s) /\ Done(s) /\ ses[s].exc = "none"

\* Reading the destination in the mode of session s yields its payload.
ReadsBack(s) ==
    /\ DestState.exists
    /\ Decode(ses[s].mode, DestState.data) = obs[s].written

\* The payload of session s is bytes, or text without a carriage return.
NoCarriageReturn(s) ==
    \/ ses[s].mode = "wb"
    \/ \A k \in 1..Len(obs[s].written) : obs[s].written[k] # "CR"

\* C10 (as claimed): after write(X, path) reading the destination yields X,
\* and after write(X, path); write(X, path) it still yields X, with no staging
\* file remaining, for every payload X.
C10_RoundTripAnyPayload ==
    /\ \A s \in Sessions :
          (Wrote(s) /\ last = s) => ReadsBack(s) /\ stg[s] = NoInode
    /\ \A s \in Sessions : \A t \in Sessions \ {s} :
          (Wrote(s) /\ Wrote(t) /\ ses[s].mode = ses[t].mode
                    /\ obs[s].written = obs[t].written) =>
              ReadsBack(s) /\ stg[s] = NoInode /\ stg[t] = NoInode

\* C10 (amended): the same for every bytes payload and for every text payload
\* that holds no carriage return.
C10_RoundTrip ==
    /\ \A s \in Sessions :
          (Wrote(s) /\ last = s /\ NoCarriageReturn(s)) =>
              ReadsBack(s) /\ stg[s] = NoInode
    /\ \A s \in Sessions : \A t \in Sessions \ {s} :
          (Wrote(s) /\ Wrote(t) /\ ses[s].mode = ses[t].mode
                    /\ obs[s].written = obs[t].written
                    /\ NoCarriageReturn(s)) =>
              ReadsBack(s) /\ stg[s] = NoInode /\ stg[t] = NoInode

\* The same text with a line feed in it was written twice over an existing
\* destination on the nt branch: the file holds the translated line end once
\* and reads back as the text.
C10_Witness ==
    /\ osname = "nt" /\ dest0.exists
    /\ Wrote("s1") /\ Wrote("s2") /\ last = "s2"
    /\ ses["s1"].mode = "w" /\ ses["s2"].mode = "w"
    /\ obs["s1"].written = obs["s2"].written
    /\ Len(obs["s2"].written) = MaxLen
    /\ \E k \in 1..MaxLen : obs["s2"].written[k] = "LF"
    /\ DestState.data # obs["s2"].written
    /\ ReadsBack("s2")


\* Session s is ready to replace: all it wrote is flushed to the staging
\* file, the file is synced, and on nt the handle is closed.
ReadyToReplace(s) ==
    /\ stg[s] = StagingInode(s)
    /\ ses[s].buf = <<>>
    /\ content[stg[s]] = Stored0(s)
    /\ synced[stg[s]]
    /\ osname = "nt" => ses[s].closed

\* The step is a successful os.replace of session s.
Replaces(s) == obs'[s].nrepl = obs[s].nrepl + 1

\* C11: the steps of a commit come in the order flush, fsync, (nt: close,)
\* replace: after the flush nothing is buffered, after the fsync the staging
\* file is synced too, and every replace starts from a flushed and synced
\* staging file (closed on nt).  Only a replace changes what the destination
\* name shows, the caller writes nothing after the replace of its session, and
\* so whatever a session made visible under the destination is complete and
\* synced.
C11_CommitOrder ==
    /\ [](\A s \in Sessions :
            /\ ses[s].pc = "fsync" => ses[s].buf = <<>>
            /\ ses[s].pc \in {"close", "replace"} =>
                  /\ ses[s].buf = <<>>
                  /\ stg[s] # NoInode => synced[stg[s]]
            /\ (ses[s].pc = "replace" /\ osname = "nt") => ses[s].closed
            /\ dest = StagingInode(s) =>
                  /\ synced[dest]
                  /\ content[dest] = Stored0(s))
    /\ [][/\ \A s \in Sessions :
               /\ Replaces(s) => (ses[s].pc = "replace" /\ ReadyToReplace(s))
               /\ obs[s].nrepl > 0 => obs'[s].written = obs[s].written
          /\ DestState' # DestState => \E s \in Sessions : Replaces(s)]_vars

\* On the nt branch a session has written in full, committed over an existing
\* destination with different content, and the destination shows the flushed,
\* synced and closed staging file.
C11_Witness ==
    /\ osname = "nt" /\ dest0.exists
    /\ obs["s1"].nrepl = 1 /\ dest = "s1" /\ ses["s1"].closed
    /\ Len(obs["s1"].written) = MaxLen
    /\ synced["s1"] /\ content["s1"] = Stored0("s1")
    /\ DestState # dest0

====
